---- MODULE Spec2Model ----
(***************************************************************************)
(* The connecting-side SRT handshake engine of                             *)
(* src/pending_connection/connect.rs: struct Connect, enum State,          *)
(* Connect::new and the Future implementation Connect::poll.               *)
(*                                                                         *)
(* One call of poll is a walk through three program points:                *)
(*   "idle"  - between two calls of poll (the future returned NotReady),   *)
(*   "recv"  - the head of the first loop (line 86), about to call         *)
(*             self.sock.poll(),                                           *)
(*   "timer" - the head of the second loop (line 222), about to call       *)
(*             self.send_interval.poll(),                                  *)
(*   "done"  - poll returned Ready or Err, or panicked; the future is      *)
(*             consumed and is not polled again.                           *)
(* The transport (Stream + Sink), the timer and the key wrap are external: *)
(* what each of their calls returns is an input of the step that makes the *)
(* call.                                                                   *)
(***************************************************************************)
EXTENDS Integers, Sequences, FiniteSets, TLC

VARIABLES
    state,          \* Connect.state: [tag, pack], the State enum and the packet it holds
    sock,           \* Connect.sock: "Some" while the engine holds the channel, "None" once taken
    tsbpd_latency,  \* Connect.tsbpd_latency
    crypto,         \* Connect.crypto: "Some" or "None"
    pc,             \* the program point of poll
    recv,           \* what the latest self.sock.poll() returned (line 87)
    sent,           \* the (packet, address) pairs start_send took, in order
    result,         \* what poll returned last: "NotReady", "Ready", "Err" or "Panic"
    error,          \* the error poll returned, "" when none
    connected,      \* the Connected values built (Connected::new, line 200), in order
    polled          \* at the start of the current poll: the state's tag and Len(sent)

vars == <<state, sock, tsbpd_latency, crypto, pc, recv, sent, result, error,
          connected, polled>>

----------------------------------------------------------------------------
\* Bounds of the model.

\* The longest sequence of packets the engine is followed through.
MaxSent == 3

----------------------------------------------------------------------------
\* Constructor arguments (Connect::new, lines 37-44).

remote == "10.0.0.1:9000"

Stranger == "10.9.9.9:9000"

Addrs == {remote, Stranger}

local_socket_id == 42

\* Destination socket ids an inbound packet can carry: this side's and another.
DestSockIds == {local_socket_id, 99}

local_addr == "192.168.0.5"

Latencies == {120}

CryptoOptions == {"None", "Some"}

\* rand::random() of line 47.
InitSeqNums == {1001, 2002}

----------------------------------------------------------------------------
\* Packets (crate::packet, as connect.rs builds and matches them).

None == [tag |-> "None"]

ShakeTypes == {"Induction", "Conclusion", "Waveahand"}

V4Info == [tag |-> "V4", socket_type |-> "Datagram"]

V5Info(hs, km, cfg) ==
    [tag |-> "V5", crypto_size |-> 0, ext_hs |-> hs, ext_km |-> km, ext_config |-> cfg]

SrtHandshake(latency) ==
    [version |-> "CURRENT", peer_latency |-> 0,
     flags |-> {"TSBPDSND", "TSBPDRCV"}, latency |-> latency]

HandshakeRequest(hs) == [tag |-> "HandshakeRequest", hs |-> hs]

HandshakeResponse(hs) == [tag |-> "HandshakeResponse", hs |-> hs]

\* HandshakeVSInfo::version().
version(info) == IF info.tag = "V4" THEN 4 ELSE 5

HandshakePacket(dest, ts, hci) ==
    [type |-> "Control", dest_sockid |-> dest, timestamp |-> ts,
     control_type |-> [tag |-> "Handshake", info |-> hci]]

DataPacket == [type |-> "Data"]

KeepAlivePacket(dest) ==
    [type |-> "Control", dest_sockid |-> dest, timestamp |-> 0,
     control_type |-> [tag |-> "KeepAlive"]]

\* Mutant: the Induction does not name this side's socket id.
InductionPacketNoSocketId(init_seq_num) ==
    HandshakePacket(0, 0,
        [init_seq_num |-> init_seq_num,
         max_packet_size |-> 1500,
         max_flow_size |-> 8192,
         socket_id |-> 0,
         shake_type |-> "Induction",
         peer_addr |-> local_addr,
         syn_cookie |-> 0,
         info |-> V4Info])

\* The Induction packet Connect::new puts into State::Starting.
InductionPacket(init_seq_num) ==
    HandshakePacket(0, 0,
        [init_seq_num |-> init_seq_num,
         max_packet_size |-> 1500,
         max_flow_size |-> 8192,
         socket_id |-> local_socket_id,
         shake_type |-> "Induction",
         peer_addr |-> local_addr,
         syn_cookie |-> 0,
         info |-> V4Info])

\* The key-manager extension of the Conclusion: present iff a CryptoManager is.
KeyManagerRequest(c) ==
    IF c = "Some"
    THEN [tag |-> "KeyManagerRequest",
          km |-> [pt |-> 2, sign |-> 8233, keki |-> 0, cipher |-> "CTR", auth |-> 0,
                  se |-> 2, salt |-> "salt", even_key |-> "wrapped", odd_key |-> None,
                  wrap_data |-> <<0, 0, 0, 0, 0, 0, 0, 0>>]]
    ELSE None

\* Mutant: the Conclusion carries SYN cookie 0, whatever the peer sent.
ConclusionPacketZeroCookie(timestamp, info, latency, c) ==
    HandshakePacket(0, timestamp,
        [info EXCEPT
            !.shake_type = "Conclusion",
            !.syn_cookie = 0,
            !.info = V5Info(HandshakeRequest(SrtHandshake(latency)),
                            KeyManagerRequest(c), None)])

\* Mutant: the Conclusion names this side's socket id, as the Induction does.
ConclusionPacketOwnSocketId(timestamp, info, latency, c) ==
    HandshakePacket(0, timestamp,
        [info EXCEPT
            !.shake_type = "Conclusion",
            !.socket_id = local_socket_id,
            !.info = V5Info(HandshakeRequest(SrtHandshake(latency)),
                            KeyManagerRequest(c), None)])

\* Mutant: the Conclusion carries timestamp 0, as the Induction does.
ConclusionPacketZeroTimestamp(timestamp, info, latency, c) ==
    HandshakePacket(0, 0,
        [info EXCEPT
            !.shake_type = "Conclusion",
            !.info = V5Info(HandshakeRequest(SrtHandshake(latency)),
                            KeyManagerRequest(c), None)])

\* pack_to_send: the Conclusion built from the received timestamp and handshake
\* info; every field the struct literal does not name comes from info (..info).
ConclusionPacket(timestamp, info, latency, c) ==
    HandshakePacket(0, timestamp,
        [info EXCEPT
            !.shake_type = "Conclusion",
            !.info = V5Info(HandshakeRequest(SrtHandshake(latency)),
                            KeyManagerRequest(c), None)])

\* Mutant: the end of the stream leaves the first loop as "nothing available" does.
DrainedOnEnd(r) == r.kind \in {"NotReady", "End"}

\* Mutant: a decode error leaves the first loop as "nothing available" does.
DrainedOnDecodeError(r) == r.kind \in {"NotReady", "Err"}

\* Ok(Async::NotReady) => break
Drained(r) == r.kind = "NotReady"

\* Ok(Async::Ready(None)) => bail!(..)
Ended(r) == r.kind = "End"

\* Err(e) => { warn!(..); continue }
DecodeFailed(r) == r.kind = "Err"

\* Mutant: the comparison is inverted.
AddrMatchesInverted(addr) == remote # addr

\* Mutant: the source address is not compared.
AddrMatchesAny(addr) == TRUE

\* if self.remote != addr { continue }
AddrMatches(addr) == remote = addr

\* if let Packet::Control(ControlPacket { control_type: ControlTypes::Handshake(info), .. })
IsHandshake(pack) ==
    /\ pack.type = "Control"
    /\ pack.control_type.tag = "Handshake"

\* if dest_sockid != self.local_socket_id { continue }
SockIdMatches(dest_sockid) == dest_sockid = local_socket_id

\* Mutant: the version is not checked.
VersionAcceptedAny(info) == TRUE

\* if info.info.version() != 5 { bail!(..) }
VersionAccepted(info) == version(info.info) = 5

\* Mutant: the two arms of the match are swapped.
IsStartingSwapped(st) == st.tag = "First"

\* match self.state { State::Starting(_) => .. , State::First(_) => .. }
IsStarting(st) == st.tag = "Starting"

\* Mutant: the shake type is not checked in First.
ConclusionExpectedAny(info) == TRUE

\* if info.shake_type != ShakeType::Conclusion { continue }
ConclusionExpected(info) == info.shake_type = "Conclusion"

\* Mutant: the latency of a handshake extension of either kind is taken.
LatencyOfAnyHandshake(info, local) ==
    IF info.info.tag = "V5"
       /\ info.info.ext_hs.tag \in {"HandshakeRequest", "HandshakeResponse"}
    THEN info.info.ext_hs.hs.latency
    ELSE local

\* Mutant: no fallback to the configured latency.
LatencyNoFallback(info, local) ==
    IF info.info.tag = "V5" /\ info.info.ext_hs.tag = "HandshakeResponse"
    THEN info.info.ext_hs.hs.latency
    ELSE 0

\* let latency = if let V5 { ext_hs: Some(HandshakeResponse(hs)), .. } = info.info
\*               { hs.latency } else { self.tsbpd_latency }
Latency(info, local) ==
    IF info.info.tag = "V5" /\ info.info.ext_hs.tag = "HandshakeResponse"
    THEN info.info.ext_hs.hs.latency
    ELSE local

\* Mutant: the two sizes are taken from each other's field.
ConnectionSettingsSwapped(info, latency) ==
    [remote |-> remote,
     max_flow_size |-> info.max_packet_size,
     max_packet_size |-> info.max_flow_size,
     init_seq_num |-> info.init_seq_num,
     socket_start_time |-> "now",
     local_sockid |-> local_socket_id,
     remote_sockid |-> info.socket_id,
     tsbpd_latency |-> latency]

ConnectionSettings(info, latency) ==
    [remote |-> remote,
     max_flow_size |-> info.max_flow_size,
     max_packet_size |-> info.max_packet_size,
     init_seq_num |-> info.init_seq_num,
     socket_start_time |-> "now",
     local_sockid |-> local_socket_id,
     remote_sockid |-> info.socket_id,
     tsbpd_latency |-> latency]

\* Mutant: the channel is handed over and kept.
TakenKept(s) == s

\* self.sock.take(): what it leaves in self.sock.
Taken(s) == "None"

\* Mutant: a tick sends a handshake rebuilt as an Induction.
RetransmitRebuilt(st) ==
    [st.pack EXCEPT !.control_type.info.shake_type = "Induction"]

\* The packet a timer tick sends: the one the current state holds, in either state.
RetransmitPacket(st) == st.pack

----------------------------------------------------------------------------
\* What the external calls can return.

\* The timestamp and the numeric fields of a peer's handshake packet: one set of
\* values of the peer's own, one equal to what this side put into its Induction.
PeerFields ==
    {[timestamp |-> 31,
      init_seq_num |-> 777, max_packet_size |-> 1316, max_flow_size |-> 4096,
      socket_id |-> 99, peer_addr |-> "10.0.0.1", syn_cookie |-> 51966],
     [timestamp |-> 0,
      init_seq_num |-> 1001, max_packet_size |-> 1500, max_flow_size |-> 8192,
      socket_id |-> local_socket_id, peer_addr |-> local_addr, syn_cookie |-> 0]}

PeerLatencies == {80}

PeerVSInfos ==
    {V4Info, V5Info(None, None, None)}
    \cup {V5Info(HandshakeRequest(SrtHandshake(l)), None, None) : l \in PeerLatencies}
    \cup {V5Info(HandshakeResponse(SrtHandshake(l)), None, None) : l \in PeerLatencies}

PeerInfo(f, st, vs) ==
    [init_seq_num |-> f.init_seq_num, max_packet_size |-> f.max_packet_size,
     max_flow_size |-> f.max_flow_size, socket_id |-> f.socket_id,
     shake_type |-> st, peer_addr |-> f.peer_addr, syn_cookie |-> f.syn_cookie,
     info |-> vs]

Packets ==
    {HandshakePacket(d, f.timestamp, PeerInfo(f, st, vs)) :
        d \in DestSockIds, f \in PeerFields,
        st \in ShakeTypes, vs \in PeerVSInfos}
    \cup {DataPacket, KeepAlivePacket(local_socket_id)}

\* self.sock.poll(): an item, the end of the stream, nothing now, or an error.
StreamResults ==
    {[kind |-> "Item", pack |-> p, addr |-> a] : p \in Packets, a \in Addrs}
    \cup {[kind |-> "End"], [kind |-> "NotReady"], [kind |-> "Err"]}

\* start_send(..)? followed by poll_complete()?: both Ok, the first Err, or the
\* second Err.
SinkResults == {"Ok", "SendErr", "FlushErr"}

\* manager.wrap_key()
WrapResults == {"Ok", "Err"}

\* self.send_interval.poll()
TimerResults == {"Ready", "NotReady", "Err"}

----------------------------------------------------------------------------
\* Connect::new

Init ==
    /\ \E seq \in InitSeqNums : state = [tag |-> "Starting", pack |-> InductionPacket(seq)]
    /\ sock = "Some"
    /\ tsbpd_latency \in Latencies
    /\ crypto \in CryptoOptions
    /\ pc = "idle"
    /\ recv = [kind |-> "NotReady"]
    /\ sent = <<>>
    /\ result = "NotReady"
    /\ error = ""
    /\ connected = <<>>
    /\ polled = [tag |-> "Starting", nsent |-> 0]

----------------------------------------------------------------------------
\* Connect::poll

\* bail!(..) and the ? of a failed call: poll returns Err.
Bail(msg) ==
    /\ pc' = "done"
    /\ result' = "Err"
    /\ error' = msg
    /\ UNCHANGED <<state, sock, connected>>

\* Mutant: break instead of continue.
Break ==
    /\ pc' = "timer"
    /\ UNCHANGED <<state, sock, sent, result, error, connected>>

\* continue: back to the head of the first loop.
Continue ==
    /\ pc' = "recv"
    /\ UNCHANGED <<state, sock, sent, result, error, connected>>

\* Mutant: the engine gives up after two packets.
SendWithRetryLimit(pack, sinks, then) ==
    /\ Len(sent) < MaxSent
    /\ IF Len(sent) >= 2
       THEN Bail("retry limit reached") /\ UNCHANGED sent
       ELSE \E sink \in sinks :
            IF sink = "SendErr"
            THEN Bail("sink") /\ UNCHANGED sent
            ELSE /\ sent' = Append(sent, <<pack, remote>>)
                 /\ IF sink = "FlushErr" THEN Bail("sink") ELSE then

\* start_send((pack.clone(), self.remote))? ; poll_complete()?
\* sinks: what the two calls can return; then: what follows when both returned Ok.
Send(pack, sinks, then) ==
    /\ Len(sent) < MaxSent
    /\ \E sink \in sinks :
        IF sink = "SendErr"
        THEN Bail("sink") /\ UNCHANGED sent
        ELSE /\ sent' = Append(sent, <<pack, remote>>)
             /\ IF sink = "FlushErr" THEN Bail("sink") ELSE then

\* self.sock.as_mut().unwrap().poll_complete()? at the top of poll.
\* flushes: whether the call can return Ok (TRUE), Err (FALSE).
PollBeginOn(flushes) ==
    /\ pc = "idle"
    /\ \E flushed \in flushes :
        IF flushed
        THEN /\ pc' = "recv"
             /\ UNCHANGED <<result, error, state, sock, connected>>
        ELSE Bail("sink")
    /\ polled' = [tag |-> state.tag, nsent |-> Len(sent)]
    /\ UNCHANGED <<tsbpd_latency, crypto, recv, sent>>

\* The State::Starting arm.
Starting(timestamp, info, wraps, sinks) ==
    IF ~VersionAccepted(info)
    THEN Bail("Handshake was HSv4, expected HSv5") /\ UNCHANGED sent
    ELSE \E wrap \in wraps :
        IF crypto = "Some" /\ wrap = "Err"
        THEN \* manager.wrap_key().unwrap() on an Err
             /\ pc' = "done"
             /\ result' = "Panic"
             /\ UNCHANGED <<state, sock, sent, error, connected>>
        ELSE LET pack_to_send == ConclusionPacket(timestamp, info, tsbpd_latency, crypto)
             IN  Send(pack_to_send, sinks,
                      /\ state' = [tag |-> "First", pack |-> pack_to_send]
                      /\ pc' = "recv"
                      /\ UNCHANGED <<sock, result, error, connected>>)

\* The State::First arm.
First(info) ==
    IF ~ConclusionExpected(info)
    THEN Continue
    ELSE /\ pc' = "done"
         /\ result' = "Ready"
         /\ sock' = Taken(sock)
         /\ connected' = Append(connected,
                [sock |-> sock,
                 settings |-> ConnectionSettings(info, Latency(info, tsbpd_latency))])
         /\ UNCHANGED <<state, sent, error>>

\* One turn of the first loop: self.sock.poll() and what is done with its result.
\* results, wraps, sinks: what the stream, the key wrap and the sink can return.
RecvOn(results, wraps, sinks) ==
    /\ pc = "recv"
    /\ \E r \in results :
        /\ recv' = r
        /\ IF Drained(r)
           THEN /\ pc' = "timer"
                /\ UNCHANGED <<state, sock, sent, result, error, connected>>
           ELSE IF Ended(r)
           THEN Bail("Underlying stream ended unexpectedly") /\ UNCHANGED sent
           ELSE IF DecodeFailed(r)
           THEN Continue
           ELSE IF ~AddrMatches(r.addr)
           THEN Continue
           ELSE IF ~IsHandshake(r.pack)
           THEN Continue
           ELSE IF ~SockIdMatches(r.pack.dest_sockid)
           THEN Continue
           ELSE IF IsStarting(state)
           THEN Starting(r.pack.timestamp, r.pack.control_type.info, wraps, sinks)
           ELSE First(r.pack.control_type.info)
    /\ UNCHANGED <<tsbpd_latency, crypto, polled>>

\* One turn of the second loop: try_ready!(self.send_interval.poll()) and the
\* resend of the packet the state holds.
\* ticks, sinks: what the timer and the sink can return.
TimerOn(ticks, sinks) ==
    /\ pc = "timer"
    /\ \E t \in ticks :
        IF t = "NotReady"
        THEN /\ pc' = "idle"
             /\ result' = "NotReady"
             /\ UNCHANGED <<state, sock, sent, error, connected>>
        ELSE IF t = "Err"
        THEN Bail("timer") /\ UNCHANGED sent
        ELSE Send(RetransmitPacket(state), sinks,
                  /\ pc' = "timer"
                  /\ UNCHANGED <<state, sock, result, error, connected>>)
    /\ UNCHANGED <<tsbpd_latency, crypto, recv, polled>>

\* poll in an environment where every external call can return anything.
PollBegin == PollBeginOn(BOOLEAN)

Recv == RecvOn(StreamResults, WrapResults, SinkResults)

Timer == TimerOn(TimerResults, SinkResults)

Next == PollBegin \/ Recv \/ Timer

Spec == Init /\ [][Next]_vars

----------------------------------------------------------------------------
\* poll in an environment that never ends the attempt: the sink, the timer and
\* the key wrap do not fail, the stream does not end, and the stream delivers no
\* handshake from the remote to the local socket id that the state's arm ends
\* the attempt on (a version-4 one in Starting, a Conclusion in First).
\* Everything else is delivered: decode errors, packets from other addresses or
\* to other socket ids, packets that are no handshake, handshakes that First
\* skips, and the version-5 handshake that moves Starting to First.

\* The packets this environment delivers: those of Packets that carry the
\* peer's own field values and, when version 5, a handshake response.
QuietPackets ==
    {p \in Packets :
        IsHandshake(p)
        => /\ p.control_type.info.socket_id # local_socket_id
           /\ p.control_type.info.info \in
                {V4Info} \cup {V5Info(HandshakeResponse(SrtHandshake(l)), None, None) :
                                l \in PeerLatencies}}

QuietResults ==
    {r \in StreamResults :
        /\ ~Ended(r)
        /\ r.kind = "Item" => r.pack \in QuietPackets
        /\ (r.kind = "Item" /\ AddrMatches(r.addr) /\ IsHandshake(r.pack)
                /\ SockIdMatches(r.pack.dest_sockid))
            => IF IsStarting(state)
               THEN VersionAccepted(r.pack.control_type.info)
               ELSE ~ConclusionExpected(r.pack.control_type.info)}

QuietPollBegin == PollBeginOn({TRUE})

QuietRecv == RecvOn(QuietResults, {"Ok"}, {"Ok"})

QuietTimer == TimerOn({"Ready", "NotReady"}, {"Ok"})

QuietNext == QuietPollBegin \/ QuietRecv \/ QuietTimer

\* The scheduler polls the future again after NotReady; the stream has finitely
\* many items ready, so a poll's first loop reaches NotReady; the timer ticks
\* again and again.
Fairness ==
    /\ WF_vars(QuietPollBegin)
    /\ WF_vars(QuietRecv /\ pc' = "timer")
    /\ SF_vars(QuietTimer /\ sent' # sent)

SpecLive == Init /\ [][QuietNext]_vars /\ Fairness

----------------------------------------------------------------------------
\* Properties.

\* r is a handshake packet received from some address.
HandshakeItem(r) ==
    /\ r.kind = "Item"
    /\ r.pack.type = "Control"
    /\ r.pack.control_type.tag = "Handshake"

\* r is a handshake packet from the configured remote to the local socket id.
Addressed(r) ==
    /\ HandshakeItem(r)
    /\ r.addr = remote
    /\ r.pack.dest_sockid = local_socket_id

\* The handshake info of a handshake item.
InfoOf(r) == r.pack.control_type.info

\* The step is a turn of the first loop; recv' is what it received.
Received == pc = "recv" /\ recv' \in StreamResults

\* The step is a resend on a timer tick.
Resent == pc = "timer" /\ sent' # sent

\* C1: in Starting and in First, a handshake packet whose source address is not
\* the configured remote, or whose destination socket id is not the local one,
\* leaves the state and the packet it holds unchanged, sends nothing and does
\* not end the attempt.
C1_StrayHandshakeDiscarded ==
    [][LET r == recv' IN
        (/\ Received
         /\ HandshakeItem(r)
         /\ (r.addr # remote \/ r.pack.dest_sockid # local_socket_id))
        => /\ state' = state
           /\ sent' = sent
           /\ pc' = "recv"
           /\ UNCHANGED <<result, error, sock, connected>>]_vars

C1_Witness ==
    /\ pc = "recv"
    /\ state.tag = "First"
    /\ HandshakeItem(recv)
    /\ recv.addr # remote
    /\ recv.pack.dest_sockid = local_socket_id
    /\ InfoOf(recv).shake_type = "Conclusion"
    /\ result = "NotReady"

\* C2: in Starting, a handshake from the remote to the local socket id whose
\* version is not 5 ends the attempt with an error, without sending anything and
\* without reaching First or success; once poll has returned the error nothing
\* is sent and the state does not change.
C2_VersionMismatchFatal ==
    [][/\ LET r == recv' IN
            (/\ Received
             /\ state.tag = "Starting"
             /\ Addressed(r)
             /\ InfoOf(r).info.tag # "V5")
            => /\ pc' = "done"
               /\ result' = "Err"
               /\ sent' = sent
               /\ state' = state
               /\ connected' = <<>>
       /\ result = "Err"
            => /\ sent' = sent
               /\ state' = state
               /\ result' = "Err"
               /\ connected' = <<>>]_vars

C2_Witness ==
    /\ result = "Err"
    /\ error = "Handshake was HSv4, expected HSv5"
    /\ state.tag = "Starting"
    /\ Addressed(recv)
    /\ InfoOf(recv).info.tag = "V4"
    /\ InfoOf(recv).shake_type = "Induction"

\* C3: a version-5 Induction response from the remote to the local socket id,
\* received in Starting in a poll that the transport and the key wrap do not
\* fail, is answered in that same turn of the loop by one packet to the remote:
\* a Conclusion with destination socket id 0 and the received timestamp, whose
\* version-5 block has a handshake request with the configured latency, peer
\* latency 0 and both TSBPD flags, a key-manager extension iff encryption is
\* configured, and no config extension; the state becomes First holding it.
C3_ConclusionReply ==
    [][LET r == recv' IN
        (/\ Received
         /\ state.tag = "Starting"
         /\ Addressed(r)
         /\ InfoOf(r).info.tag = "V5"
         /\ InfoOf(r).shake_type = "Induction"
         /\ pc' # "done")
        => /\ state'.tag = "First"
           /\ sent' = Append(sent, <<state'.pack, remote>>)
           /\ pc' = "recv"
           /\ polled' = polled
           /\ LET p == state'.pack
                  h == p.control_type.info
              IN  /\ p.type = "Control"
                  /\ p.dest_sockid = 0
                  /\ p.timestamp = r.pack.timestamp
                  /\ p.control_type.tag = "Handshake"
                  /\ h.shake_type = "Conclusion"
                  /\ h.info.tag = "V5"
                  /\ h.info.ext_hs.tag = "HandshakeRequest"
                  /\ h.info.ext_hs.hs.latency = tsbpd_latency
                  /\ h.info.ext_hs.hs.peer_latency = 0
                  /\ h.info.ext_hs.hs.flags = {"TSBPDSND", "TSBPDRCV"}
                  /\ (h.info.ext_km.tag = "KeyManagerRequest") = (crypto = "Some")
                  /\ (h.info.ext_km.tag = "None") = (crypto = "None")
                  /\ h.info.ext_config = None]_vars

C3_Witness ==
    /\ pc = "recv"
    /\ state.tag = "First"
    /\ polled = [tag |-> "Starting", nsent |-> 0]
    /\ sent = <<<<state.pack, remote>>>>
    /\ Addressed(recv)
    /\ InfoOf(recv).info.tag = "V5"
    /\ InfoOf(recv).shake_type = "Induction"
    /\ recv.pack.timestamp = 31
    /\ state.pack.timestamp = 31
    /\ crypto = "Some"

\* C4: a packet sent on a timer tick is the packet the state holds, sent to the
\* remote, and the tick does not change the state; the packet held in Starting
\* is an Induction and stays the same while in Starting, the packet held in
\* First is the Conclusion sent at the transition and stays the same after.
C4_RetransmitHeldPacket ==
    [][/\ Resent => /\ sent' = Append(sent, <<state.pack, remote>>)
                    /\ state' = state
       /\ state'.tag = state.tag => state'.pack = state.pack
       /\ (state.tag = "Starting" /\ state'.tag = "First")
            => sent' = Append(sent, <<state'.pack, remote>>)
       /\ state.tag = "Starting"
            => /\ state.pack.control_type.info.shake_type = "Induction"
               /\ state.pack.control_type.info.info.tag = "V4"]_vars

C4_Witness ==
    /\ pc = "timer"
    /\ state.tag = "First"
    /\ Len(sent) = 3
    /\ sent[1] # sent[2]
    /\ sent[2] = <<state.pack, remote>>
    /\ sent[3] = <<state.pack, remote>>
    /\ polled.nsent = 2

\* C5: when poll returns Ready, exactly one Connected was built, and its
\* settings carry the init_seq_num, max_packet_size, max_flow_size and socket_id
\* of the handshake info just received, the configured remote and the local
\* socket id.
C5_SettingsFromPeerConclusion ==
    result = "Ready"
    => /\ Len(connected) = 1
       /\ Addressed(recv)
       /\ state.tag = "First"
       /\ LET s == connected[1].settings
              i == InfoOf(recv)
          IN  /\ s.init_seq_num = i.init_seq_num
              /\ s.max_packet_size = i.max_packet_size
              /\ s.max_flow_size = i.max_flow_size
              /\ s.remote_sockid = i.socket_id
              /\ s.remote = remote
              /\ s.local_sockid = local_socket_id

\* Success on a Conclusion whose values differ from those held (the ones echoed
\* in this side's Conclusion) and from those of this side's Induction.
C5_Witness ==
    /\ result = "Ready"
    /\ Len(connected) = 1
    /\ InfoOf(recv).init_seq_num = 777
    /\ connected[1].settings.init_seq_num = 777
    /\ connected[1].settings.max_flow_size = 4096
    /\ connected[1].settings.max_packet_size = 1316
    /\ connected[1].settings.remote_sockid = 99
    /\ state.pack.control_type.info.init_seq_num = 1001
    /\ state.pack.control_type.info.max_flow_size = 8192

\* C6: in First, a Conclusion from the remote to the local socket id that has no
\* handshake extension makes poll return Ready, with the configured latency as
\* the settings' tsbpd_latency.
C6_LatencyFallback ==
    [][LET r == recv' IN
        (/\ Received
         /\ state.tag = "First"
         /\ Addressed(r)
         /\ InfoOf(r).shake_type = "Conclusion"
         /\ (InfoOf(r).info.tag = "V4" \/ InfoOf(r).info.ext_hs = None))
        => /\ result' = "Ready"
           /\ pc' = "done"
           /\ Len(connected') = 1
           /\ connected'[1].settings.tsbpd_latency = tsbpd_latency]_vars

C6_Witness ==
    /\ result = "Ready"
    /\ Addressed(recv)
    /\ InfoOf(recv).info.tag = "V5"
    /\ InfoOf(recv).info.ext_hs = None
    /\ Len(connected) = 1
    /\ connected[1].settings.tsbpd_latency = tsbpd_latency
    /\ tsbpd_latency # 0

\* C7: the state never goes from First back to Starting, poll returns Ready only
\* from First, and nothing changes the state once poll has returned Ready.
C7_ForwardOnly ==
    [][/\ state.tag = "First" => state'.tag = "First"
       /\ (result # "Ready" /\ result' = "Ready") => state.tag = "First"
       /\ result = "Ready" => (state' = state /\ result' = "Ready")]_vars

C7_Witness ==
    /\ result = "Ready"
    /\ state.tag = "First"
    /\ pc = "done"
    /\ Len(sent) >= 2

\* C8: in either state, a version-4 handshake from the remote to the local
\* socket id is not accepted: it does not advance the state and poll does not
\* return Ready on it (what a fatal mismatch in every state implies).
C8_Version4NeverAccepted ==
    [][LET r == recv' IN
        (/\ Received
         /\ Addressed(r)
         /\ InfoOf(r).info.tag = "V4")
        => /\ result' # "Ready"
           /\ state' = state
           /\ connected' = <<>>]_vars

\* C9: the engine holds the channel exactly as long as no Connected has been
\* built; at most one Connected is ever built, it is built when poll returns
\* Ready from First, it holds the channel and the engine no longer does; none is
\* built when poll returned an error or panicked.
C9_ChannelHandedOffOnce ==
    /\ Len(connected) <= 1
    /\ (sock = "Some") = (connected = <<>>)
    /\ (result = "Ready") = (connected # <<>>)
    /\ result \in {"NotReady", "Err", "Panic"} => sock = "Some"
    /\ connected # <<>>
        => /\ connected[1].sock = "Some"
           /\ sock = "None"
           /\ state.tag = "First"
           /\ pc = "done"

C9_Witness ==
    /\ connected # <<>>
    /\ connected[1].sock = "Some"
    /\ sock = "None"
    /\ result = "Ready"

\* C10 as stated: a timer tick resends only in a poll in which no inbound packet
\* has advanced the state.
C10_NoResendAfterAdvance ==
    [][Resent => state.tag = polled.tag]_vars

\* C10 as amended: a timer tick resends only once the first loop has found
\* nothing more to receive and poll has not returned; in a poll that moved the
\* state from Starting to First, a tick resends the Conclusion that this poll
\* has already sent.
C10_ResendAfterDrain ==
    [][Resent
        => /\ recv.kind = "NotReady"
           /\ result = "NotReady"
           /\ (polled.tag = "Starting" /\ state.tag = "First")
                => /\ Len(sent) > polled.nsent
                   /\ sent'[Len(sent')] = sent[polled.nsent + 1]
                   /\ sent'[Len(sent')][1].control_type.info.shake_type = "Conclusion"]_vars

C10_Witness ==
    /\ pc = "timer"
    /\ polled.tag = "Starting"
    /\ state.tag = "First"
    /\ Len(sent) = polled.nsent + 2
    /\ sent[Len(sent)] = sent[Len(sent) - 1]
    /\ sent[Len(sent)] = <<state.pack, remote>>

\* The handshake info a sent (packet, address) pair carries.
SentInfo(s) == s[1].control_type.info

\* The step sends a packet; Last(sent') is that packet.
Sends == Len(sent') = Len(sent) + 1

LastSent == sent'[Len(sent')]

\* C11: in Starting with encryption configured, a turn of the first loop on a
\* version-5 handshake from the remote to the local socket id that ends the
\* attempt without sending the Conclusion (as a failed key wrap does) ends it
\* with an error value returned by poll, the state still Starting.
C11_WrapFailureReturnsError ==
    [][LET r == recv' IN
        (/\ Received
         /\ state.tag = "Starting"
         /\ Addressed(r)
         /\ InfoOf(r).info.tag = "V5"
         /\ crypto = "Some"
         /\ pc' = "done"
         /\ sent' = sent)
        => /\ result' = "Err"
           /\ state' = state]_vars

\* C12 as stated: every packet sent carries SYN cookie 0.
C12_AllCookiesZero ==
    \A i \in 1..Len(sent) : SentInfo(sent[i]).syn_cookie = 0

\* C12 as amended: the packet held in Starting carries SYN cookie 0 and so does
\* every packet sent while in Starting on a tick; the Conclusion sent on a
\* received handshake carries that handshake's SYN cookie, and a tick in First
\* sends the cookie of the Conclusion held.
C12_CookieEchoed ==
    [][/\ state.tag = "Starting" => state.pack.control_type.info.syn_cookie = 0
       /\ (Sends /\ pc = "timer")
            => /\ SentInfo(LastSent).syn_cookie = state.pack.control_type.info.syn_cookie
               /\ state.tag = "Starting" => SentInfo(LastSent).syn_cookie = 0
       /\ (Sends /\ pc = "recv")
            => /\ Addressed(recv')
               /\ SentInfo(LastSent).shake_type = "Conclusion"
               /\ SentInfo(LastSent).syn_cookie = InfoOf(recv').syn_cookie]_vars

C12_Witness ==
    /\ Len(sent) = 3
    /\ SentInfo(sent[1]).shake_type = "Induction"
    /\ SentInfo(sent[1]).syn_cookie = 0
    /\ SentInfo(sent[2]).shake_type = "Conclusion"
    /\ SentInfo(sent[2]).syn_cookie = 51966
    /\ sent[3] = sent[2]
    /\ pc = "timer"

\* C13 as stated: the first packet sent is an Induction with destination socket
\* id 0 and this side's socket id.
C13_FirstPacketIsInduction ==
    sent # <<>>
    => /\ SentInfo(sent[1]).shake_type = "Induction"
       /\ sent[1][1].dest_sockid = 0
       /\ SentInfo(sent[1]).socket_id = local_socket_id

\* C13 as amended: the first packet sent is sent either on a timer tick, and is
\* then an Induction with destination socket id 0 and this side's socket id, or
\* on a version-5 handshake from the remote to the local socket id received
\* before any tick, and is then the Conclusion reply.
C13_FirstPacketOnTickIsInduction ==
    [][(sent = <<>> /\ Sends)
        => IF pc = "timer"
           THEN /\ state.tag = "Starting"
                /\ SentInfo(sent'[1]).shake_type = "Induction"
                /\ sent'[1][1].dest_sockid = 0
                /\ SentInfo(sent'[1]).socket_id = local_socket_id
                /\ sent'[1][2] = remote
           ELSE /\ pc = "recv"
                /\ state.tag = "Starting"
                /\ Addressed(recv')
                /\ InfoOf(recv').info.tag = "V5"
                /\ SentInfo(sent'[1]).shake_type = "Conclusion"]_vars

C13_Witness ==
    /\ pc = "timer"
    /\ state.tag = "Starting"
    /\ sent = <<<<state.pack, remote>>>>
    /\ SentInfo(sent[1]).shake_type = "Induction"
    /\ SentInfo(sent[1]).socket_id = local_socket_id
    /\ polled.nsent = 0

\* C14 as stated: in Starting a handshake from the remote to the local socket
\* id that is not an Induction, and in First one that is not a Conclusion, is
\* skipped: nothing changes and the first loop goes on.
C14_UnexpectedShakeTypeSkipped ==
    [][LET r == recv' IN
        (/\ Received
         /\ Addressed(r)
         /\ \/ state.tag = "Starting" /\ InfoOf(r).shake_type # "Induction"
            \/ state.tag = "First" /\ InfoOf(r).shake_type # "Conclusion")
        => /\ state' = state
           /\ sent' = sent
           /\ pc' = "recv"
           /\ UNCHANGED <<result, error, sock, connected>>]_vars

\* C14 as amended: in First a handshake from the remote to the local socket id
\* that is not a Conclusion is skipped; in Starting the shake type decides
\* nothing: one that is not an Induction is handled as an Induction is, a fatal
\* error if its version is 4, else answered by the Conclusion with the state
\* becoming First (unless the key wrap or the transport fails).
C14_ShakeTypeCheckedInFirstOnly ==
    [][LET r == recv' IN
        /\ (/\ Received
            /\ Addressed(r)
            /\ state.tag = "First"
            /\ InfoOf(r).shake_type # "Conclusion")
           => /\ state' = state
              /\ sent' = sent
              /\ pc' = "recv"
              /\ UNCHANGED <<result, error, sock, connected>>
        /\ (/\ Received
            /\ Addressed(r)
            /\ state.tag = "Starting"
            /\ InfoOf(r).shake_type # "Induction")
           => IF InfoOf(r).info.tag = "V4"
              THEN result' = "Err" /\ pc' = "done" /\ state' = state /\ sent' = sent
              ELSE pc' # "done"
                    => /\ state'.tag = "First"
                       /\ sent' = Append(sent, <<state'.pack, remote>>)
                       /\ SentInfo(LastSent).shake_type = "Conclusion"]_vars

\* A version-4 handshake of an unexpected type has been skipped in First.
C14_Witness ==
    /\ pc = "recv"
    /\ state.tag = "First"
    /\ Addressed(recv)
    /\ InfoOf(recv).shake_type = "Waveahand"
    /\ InfoOf(recv).info.tag = "V4"
    /\ result = "NotReady"
    /\ connected = <<>>

\* C15: in either state, a turn of the first loop that finds the stream ended
\* makes poll return an error: no Connected is built, the engine keeps the
\* channel, nothing is sent in that turn and the second loop is not entered.
C15_EndOfChannelFatal ==
    [][(Received /\ recv'.kind = "End")
        => /\ pc' = "done"
           /\ result' = "Err"
           /\ error' = "Underlying stream ended unexpectedly"
           /\ sent' = sent
           /\ state' = state
           /\ sock' = "Some"
           /\ connected' = <<>>]_vars

C15_Witness ==
    /\ recv.kind = "End"
    /\ pc = "done"
    /\ result = "Err"
    /\ state.tag = "First"
    /\ connected = <<>>
    /\ sock = "Some"
    /\ Len(sent) = polled.nsent

\* r is a packet from the configured remote that is not a handshake.
NonHandshakeItem(r) ==
    /\ r.kind = "Item"
    /\ r.addr = remote
    /\ ~(r.pack.type = "Control" /\ r.pack.control_type.tag = "Handshake")

\* C16: a decode failure, or a packet from the remote that is not a handshake,
\* changes neither the state nor the packet it holds, sends nothing, does not
\* end the attempt, and leaves poll in the first loop of the same poll, where
\* the next item is received.
C16_BadItemSkipped ==
    [][LET r == recv' IN
        (Received /\ (r.kind = "Err" \/ NonHandshakeItem(r)))
        => /\ state' = state
           /\ sent' = sent
           /\ pc' = "recv"
           /\ polled' = polled
           /\ UNCHANGED <<result, error, sock, connected>>]_vars

\* After a decode failure the first loop is still running in Starting.
C16_Witness ==
    /\ pc = "recv"
    /\ recv.kind = "Err"
    /\ state.tag = "Starting"
    /\ result = "NotReady"
    /\ Len(sent) = polled.nsent

\* C17 as stated: poll returns Ready on a Conclusion with a handshake extension
\* of either kind with that extension's latency in the settings.
C17_LatencyOfEitherKind ==
    (/\ result = "Ready"
     /\ InfoOf(recv).info.tag = "V5"
     /\ InfoOf(recv).info.ext_hs.tag \in {"HandshakeRequest", "HandshakeResponse"})
    => connected[1].settings.tsbpd_latency = InfoOf(recv).info.ext_hs.hs.latency

\* C17 as amended: the settings carry the latency of the Conclusion's handshake
\* extension when that is a handshake response, and the configured latency in
\* every other case (no extension, a handshake request, a version-4 block).
C17_LatencyOfResponseOnly ==
    result = "Ready"
    => LET i == InfoOf(recv).info
           l == connected[1].settings.tsbpd_latency
       IN  IF i.tag = "V5" /\ i.ext_hs.tag = "HandshakeResponse"
           THEN l = i.ext_hs.hs.latency
           ELSE l = tsbpd_latency

C17_Witness ==
    /\ result = "Ready"
    /\ InfoOf(recv).info.tag = "V5"
    /\ InfoOf(recv).info.ext_hs.tag = "HandshakeResponse"
    /\ InfoOf(recv).info.ext_hs.hs.latency = 80
    /\ connected[1].settings.tsbpd_latency = 80
    /\ tsbpd_latency = 120

\* C19: the Conclusion built in Starting, sent and then held in First, has the
\* init_seq_num, max_packet_size, max_flow_size, socket_id and peer_addr of the
\* handshake it answers, not those of the Induction this side held.
C19_ConclusionEchoesResponse ==
    [][(state.tag = "Starting" /\ state'.tag = "First")
        => /\ Received
           /\ Addressed(recv')
           /\ sent' = Append(sent, <<state'.pack, remote>>)
           /\ LET c == state'.pack.control_type.info
                  i == InfoOf(recv')
              IN  /\ c.init_seq_num = i.init_seq_num
                  /\ c.max_packet_size = i.max_packet_size
                  /\ c.max_flow_size = i.max_flow_size
                  /\ c.socket_id = i.socket_id
                  /\ c.peer_addr = i.peer_addr]_vars

\* The Conclusion held names the peer's socket id and the peer's values, all
\* different from those of the Induction sent before it.
C19_Witness ==
    /\ state.tag = "First"
    /\ Len(sent) = 2
    /\ SentInfo(sent[1]).shake_type = "Induction"
    /\ SentInfo(sent[1]).socket_id = local_socket_id
    /\ sent[2] = <<state.pack, remote>>
    /\ SentInfo(sent[2]).socket_id = 99
    /\ SentInfo(sent[2]).socket_id # local_socket_id
    /\ SentInfo(sent[2]).init_seq_num = 777
    /\ SentInfo(sent[1]).init_seq_num # 777
    /\ SentInfo(sent[2]).max_packet_size = 1316
    /\ SentInfo(sent[2]).peer_addr # local_addr

\* C20: every packet sent is sent to the configured remote, and a turn of the
\* first loop that receives an item from another address sends nothing.
C20_SentToRemoteOnly ==
    [][/\ Sends => LastSent[2] = remote
       /\ \A i \in 1..Len(sent) : sent[i][2] = remote
       /\ (Received /\ recv'.kind = "Item" /\ recv'.addr # remote)
            => sent' = sent]_vars

\* A handshake that the remote could have sent arrived from another address in
\* Starting, and nothing has been sent.
C20_Witness ==
    /\ pc = "recv"
    /\ state.tag = "Starting"
    /\ HandshakeItem(recv)
    /\ recv.addr = Stranger
    /\ recv.pack.dest_sockid = local_socket_id
    /\ InfoOf(recv).info.tag = "V5"
    /\ InfoOf(recv).shake_type = "Induction"
    /\ sent = <<>>

====
